---- MODULE Spec2Model ----
(***************************************************************************)
(* Verification model of the ideal-gas particle core of                    *)
(* src/pygame/ideal_gas.py: Particle, SpatialGrid,                         *)
(* check_particle_collision and Simulation.                                *)
(*                                                                         *)
(* Numbers.  The program computes with Python floats and numpy float64.    *)
(* The model computes with exact rationals <<n, d>> (d > 0, lowest terms)  *)
(* and one extra value NaN == <<0, 0>>, the result numpy gives for 0.0/0.0.*)
(* Inputs are drawn so that every square root the program takes is         *)
(* rational, hence every reachable value is exact; rounding error of the   *)
(* float arithmetic is outside the model.                                  *)
(***************************************************************************)
EXTENDS Integers, Sequences, FiniteSets, TLC

VARIABLES
    particles,        \* Simulation.particles: sequence of Particle records
    width,            \* Simulation.width
    height,           \* Simulation.height
    volume,           \* Simulation.volume
    pressure,         \* Simulation.pressure
    temperature,      \* Simulation.temperature
    collision_count,  \* Simulation.collision_count
    time_elapsed,     \* Simulation.time_elapsed
    spatial_grid,     \* Simulation.spatial_grid
    status,           \* "running", or "raised" once a call ended in an exception
    last,             \* the most recent call: [op, args]
    ret,              \* what the most recent call returned
    pre,              \* the program state the most recent call started from
    ticks             \* number of calls made so far (bounds the exploration)

vars == <<particles, width, height, volume, pressure, temperature,
          collision_count, time_elapsed, spatial_grid, status, last, ret,
          pre, ticks>>

----------------------------------------------------------------------------
(* Program constants, src/pygame/ideal_gas.py lines 6-11.                  *)

PARTICLE_SIZE == 5
PARTICLE_COUNT == 100
GAS_CONSTANT == 1
CELL_SIZE == PARTICLE_SIZE * 2

----------------------------------------------------------------------------
(* Float arithmetic as exact rationals with NaN.                           *)

\* F(e) with e evaluated once, before F is applied to it (a sequential
\* program computes a value once and then uses it).
Eval(F(_), e) == CHOOSE r \in {F(v) : v \in {e}} : TRUE

IAbs(n) == IF n < 0 THEN -n ELSE n

RECURSIVE GCD(_, _)
GCD(a, b) == IF b = 0 THEN a ELSE GCD(b, a % b)

NaN == <<0, 0>>
IsNaN(q) == q[2] = 0

\* n/d in lowest terms with a positive denominator; d = 0 gives NaN.
Rat(n, d) ==
    IF d = 0 THEN NaN
    ELSE LET s == IF d < 0 THEN -1 ELSE 1
             g == GCD(IAbs(n), IAbs(d))
         IN  <<(s * n) \div g, (s * d) \div g>>

I(n) == <<n, 1>>
Zero == I(0)
One == I(1)
Half == Rat(1, 2)

Add(a, b) == IF IsNaN(a) \/ IsNaN(b) THEN NaN
             ELSE Rat(a[1] * b[2] + b[1] * a[2], a[2] * b[2])
Neg(a) == IF IsNaN(a) THEN NaN ELSE <<-a[1], a[2]>>
Sub(a, b) == Add(a, Neg(b))
Mul(a, b) == IF IsNaN(a) \/ IsNaN(b) THEN NaN
             ELSE Rat(a[1] * b[1], a[2] * b[2])
\* numpy true division: 0.0/0.0 is nan (with a RuntimeWarning, no exception).
\* Its only possibly-zero divisor in the program is `distance`, and
\* distance = 0 forces dx = dy = 0, so x/0 with x # 0 never arises.
Div(a, b) == IF IsNaN(a) \/ IsNaN(b) THEN NaN
             ELSE Rat(a[1] * b[2], a[2] * b[1])
FAbs(a) == IF IsNaN(a) THEN NaN ELSE <<IAbs(a[1]), a[2]>>

\* Comparisons: every comparison with NaN is false.
Lt(a, b) == ~IsNaN(a) /\ ~IsNaN(b) /\ a[1] * b[2] < b[1] * a[2]
Gt(a, b) == Lt(b, a)
Le(a, b) == ~IsNaN(a) /\ ~IsNaN(b) /\ a[1] * b[2] <= b[1] * a[2]
Ge(a, b) == Le(b, a)

\* Python's builtin min(a, b) / max(a, b): the first argument unless the
\* second is strictly smaller / larger.
PyMin(a, b) == IF Lt(b, a) THEN b ELSE a
PyMax(a, b) == IF Gt(b, a) THEN b ELSE a
IMin(a, b) == IF b < a THEN b ELSE a
IMax(a, b) == IF b > a THEN b ELSE a

\* int(x // c) for a non-NaN x and a positive integer c: floor(x / c).
\* (int() of a NaN raises ValueError; callers test IsNaN first.)
FloorDiv(x, c) == x[1] \div (x[2] * c)

\* np.sqrt on a non-negative rational.  IRoot(n, lo, hi) is the largest r in
\* lo..hi with r * r <= n, so Sqrt is exact whenever the root is rational
\* (numerator and denominator both perfect squares).
RECURSIVE IRoot(_, _, _)
IRoot(n, lo, hi) ==
    IF lo >= hi THEN lo
    ELSE LET mid == (lo + hi + 1) \div 2
         IN  IF mid * mid <= n THEN IRoot(n, mid, hi) ELSE IRoot(n, lo, mid - 1)
ISqrt(n) == IRoot(n, 0, n)
Sqrt(a) == IF IsNaN(a) THEN NaN ELSE Rat(ISqrt(a[1]), ISqrt(a[2]))
HasExactSqrt(a) ==
    \/ IsNaN(a)
    \/ ISqrt(a[1]) * ISqrt(a[1]) = a[1] /\ ISqrt(a[2]) * ISqrt(a[2]) = a[2]

----------------------------------------------------------------------------
(* class Particle                                                          *)

\* int(v // CELL_SIZE), the cached cell index of lines 42-43, 88-89, 312-313.
CellIndex(v) == FloorDiv(v, CELL_SIZE)

\* Particle.__init__ (color is a rendering attribute derived from vx, vy and
\* is not modelled).
Particle(x, y, vx, vy) ==
    [x |-> x, y |-> y, vx |-> vx, vy |-> vy,
     radius |-> I(PARTICLE_SIZE), mass |-> One,
     cell_x |-> CellIndex(x), cell_y |-> CellIndex(y)]

\* One axis of the wall handling of Particle.update, after the position
\* step: c is the stepped coordinate, v the velocity, extent the container
\* size on that axis.  Gives the new coordinate, the new velocity and
\* whether a wall branch fired.
WallLow(c, radius) == Lt(Sub(c, radius), Zero)
WallHigh(c, radius, extent) == ~WallLow(c, radius) /\ Gt(Add(c, radius), extent)

\* WallAxis with the coordinate mirrored at the wall instead of clamped to it
WallAxis_mirrored(c, v, radius, extent) ==
    IF WallLow(c, radius)
    THEN [c |-> Sub(Mul(I(2), radius), c), v |-> FAbs(v), hit |-> TRUE]
    ELSE IF WallHigh(c, radius, extent)
    THEN [c |-> Sub(Mul(I(2), Sub(extent, radius)), c), v |-> Neg(FAbs(v)),
          hit |-> TRUE]
    ELSE [c |-> c, v |-> v, hit |-> FALSE]

\* WallAxis with the velocity negated at a wall, whichever way it points
WallAxis_negating(c, v, radius, extent) ==
    IF WallLow(c, radius)
    THEN [c |-> radius, v |-> Neg(v), hit |-> TRUE]
    ELSE IF WallHigh(c, radius, extent)
    THEN [c |-> Sub(extent, radius), v |-> Neg(v), hit |-> TRUE]
    ELSE [c |-> c, v |-> v, hit |-> FALSE]

\* WallAxis with a coefficient of restitution of one half
WallAxis_damped(c, v, radius, extent) ==
    IF WallLow(c, radius)
    THEN [c |-> radius, v |-> Mul(Half, FAbs(v)), hit |-> TRUE]
    ELSE IF WallHigh(c, radius, extent)
    THEN [c |-> Sub(extent, radius), v |-> Neg(Mul(Half, FAbs(v))), hit |-> TRUE]
    ELSE [c |-> c, v |-> v, hit |-> FALSE]

WallAxis(c, v, radius, extent) ==
    IF WallLow(c, radius)
    THEN [c |-> radius, v |-> FAbs(v), hit |-> TRUE]
    ELSE IF WallHigh(c, radius, extent)
    THEN [c |-> Sub(extent, radius), v |-> Neg(FAbs(v)), hit |-> TRUE]
    ELSE [c |-> c, v |-> v, hit |-> FALSE]

\* Particle_update with the flag set by the vertical test alone, the `collision
\* = False` of line 67 placed before the vertical block
Particle_update_verticalOnly(p, w, h) ==
    LET ax == WallAxis(Add(p.x, p.vx), p.vx, p.radius, w)
        ay == WallAxis(Add(p.y, p.vy), p.vy, p.radius, h)
        raised == IsNaN(ax.c) \/ IsNaN(ay.c)
        moved == [p EXCEPT !.x = ax.c, !.vx = ax.v, !.y = ay.c, !.vy = ay.v]
    IN  [p |-> IF raised THEN moved
               ELSE [moved EXCEPT !.cell_x = CellIndex(ax.c),
                                  !.cell_y = CellIndex(ay.c)],
         collision |-> ay.hit,
         raised |-> raised]

\* Particle.update(width, height).  raised: int() of a NaN coordinate raised
\* ValueError at line 88 or 89, after x, y, vx, vy were assigned and before
\* the cached cell indices were.
Particle_update(p, w, h) ==
    LET ax == WallAxis(Add(p.x, p.vx), p.vx, p.radius, w)
        ay == WallAxis(Add(p.y, p.vy), p.vy, p.radius, h)
        raised == IsNaN(ax.c) \/ IsNaN(ay.c)
        moved == [p EXCEPT !.x = ax.c, !.vx = ax.v, !.y = ay.c, !.vy = ay.v]
    IN  [p |-> IF raised THEN moved
               ELSE [moved EXCEPT !.cell_x = CellIndex(ax.c),
                                  !.cell_y = CellIndex(ay.c)],
         collision |-> ax.hit \/ ay.hit,
         raised |-> raised]

----------------------------------------------------------------------------
(* check_particle_collision(p1, p2) on particles ps[i] and ps[j];          *)
(* `p1 is p2` is i = j.                                                    *)

Dot(ax, ay, bx, by) == Add(Mul(ax, bx), Mul(ay, by))

\* distance, line 159-161
Distance(p1, p2) ==
    LET dx == Sub(p2.x, p1.x)
        dy == Sub(p2.y, p1.y)
    IN  Sqrt(Add(Mul(dx, dx), Mul(dy, dy)))

\* Colliding with `distance <= p1.radius + p2.radius`
Colliding_inclusive(p1, p2) == Le(Distance(p1, p2), Add(p1.radius, p2.radius))

\* line 164
Colliding(p1, p2) == Lt(Distance(p1, p2), Add(p1.radius, p2.radius))

\* unit normal from p1 to p2, lines 166-167
NormalX(p1, p2) == Div(Sub(p2.x, p1.x), Distance(p1, p2))
NormalY(p1, p2) == Div(Sub(p2.y, p1.y), Distance(p1, p2))

\* lines 174-178
NormalVel(p1, p2) ==
    Dot(Sub(p2.vx, p1.vx), Sub(p2.vy, p1.vy), NormalX(p1, p2), NormalY(p1, p2))

\* Separating with `normal_vel > 0` for `normal_vel >= 0`
Separating_strict(p1, p2) == Gt(NormalVel(p1, p2), Zero)

\* line 181: the early return for a pair that is not approaching
Separating(p1, p2) == Ge(NormalVel(p1, p2), Zero)

\* NormalAfter with the two normal velocities exchanged in the formula
NormalAfter_exchanged(p, q, nx, ny) ==
    Div(Add(Mul(Sub(p.mass, q.mass), Dot(q.vx, q.vy, nx, ny)),
            Mul(Mul(I(2), q.mass), Dot(p.vx, p.vy, nx, ny))),
        Add(p.mass, q.mass))

\* lines 188-189: normal velocity of p after the collision with q
NormalAfter(p, q, nx, ny) ==
    Div(Add(Mul(Sub(p.mass, q.mass), Dot(p.vx, p.vy, nx, ny)),
            Mul(Mul(I(2), q.mass), Dot(q.vx, q.vy, nx, ny))),
        Add(p.mass, q.mass))

\* lines 202-207: the shift applied along the normal (p1 by -, p2 by +)
SeparationShift(overlap, n) ==
    IF Gt(overlap, Zero) THEN Mul(Mul(Half, overlap), n) ELSE Zero

\* Resolve computing on copies: nothing is written back to p1 and p2
Resolve_onCopies(p1, p2) == <<p1, p2>>

\* lines 184-209 on a colliding, approaching pair
Resolve(p1, p2) ==
    LET nx == NormalX(p1, p2)
        ny == NormalY(p1, p2)
        tx == Neg(ny)
        ty == nx
        v1n == NormalAfter(p1, p2, nx, ny)
        v2n == NormalAfter(p2, p1, nx, ny)
        v1t == Dot(p1.vx, p1.vy, tx, ty)
        v2t == Dot(p2.vx, p2.vy, tx, ty)
        overlap == Sub(Add(p1.radius, p2.radius), Distance(p1, p2))
        sx == SeparationShift(overlap, nx)
        sy == SeparationShift(overlap, ny)
    IN  <<[p1 EXCEPT !.vx = Add(Mul(v1n, nx), Mul(v1t, tx)),
                     !.vy = Add(Mul(v1n, ny), Mul(v1t, ty)),
                     !.x = Sub(p1.x, sx), !.y = Sub(p1.y, sy)],
          [p2 EXCEPT !.vx = Add(Mul(v2n, nx), Mul(v2t, tx)),
                     !.vy = Add(Mul(v2n, ny), Mul(v2t, ty)),
                     !.x = Add(p2.x, sx), !.y = Add(p2.y, sy)]>>

check_particle_collision(ps, i, j) ==
    IF i = j THEN [particles |-> ps, ret |-> FALSE]
    ELSE IF ~Colliding(ps[i], ps[j]) THEN [particles |-> ps, ret |-> FALSE]
    ELSE IF Separating(ps[i], ps[j]) THEN [particles |-> ps, ret |-> FALSE]
    ELSE LET r == Resolve(ps[i], ps[j])
         IN  [particles |-> [ps EXCEPT ![i] = r[1], ![j] = r[2]], ret |-> TRUE]

----------------------------------------------------------------------------
(* class SpatialGrid.  A grid is [cols, rows, grid]; grid maps the cell    *)
(* <<col, row>> to the sequence of particle indices appended to it.        *)

\* SpatialGrid.__init__
SpatialGrid(w, h) ==
    LET cols == FloorDiv(w, CELL_SIZE) + 1
        rows == FloorDiv(h, CELL_SIZE) + 1
    IN  [cols |-> cols, rows |-> rows,
         grid |-> [c \in (0 .. cols - 1) \X (0 .. rows - 1) |-> <<>>]]

\* ClampCell without max(0, .): a negative index counts from the end of the
\* list, as Python's indexing does
ClampCell_noLowerClamp(v, n) ==
    LET c == IMin(CellIndex(v), n - 1)
    IN  IF c < 0 THEN c + n ELSE c

\* min(max(0, int(v // cell_size)), n - 1), lines 123-124 and 133-134
ClampCell(v, n) == IMin(IMax(0, CellIndex(v)), n - 1)

\* SpatialGrid.insert.  raised: ValueError from int() of a NaN coordinate, or
\* IndexError when the grid has no column or no row (cols <= 0 or rows <= 0).
insert(g, p, i) ==
    IF IsNaN(p.x) \/ IsNaN(p.y) THEN [g |-> g, raised |-> TRUE]
    ELSE LET cell == <<ClampCell(p.x, g.cols), ClampCell(p.y, g.rows)>>
         IN  IF cell \notin DOMAIN g.grid THEN [g |-> g, raised |-> TRUE]
             ELSE [g |-> [g EXCEPT !.grid[cell] = Append(@, i)],
                   raised |-> FALSE]

\* SpatialGrid.clear
clear(g) == [g EXCEPT !.grid = [c \in DOMAIN g.grid |-> <<>>]]

\* the concatenation of grid[i][j] for j in range(jlo, jhi)
RECURSIVE ColumnCells(_, _, _, _)
ColumnCells(g, i, jlo, jhi) ==
    IF jlo >= jhi THEN <<>>
    ELSE g.grid[<<i, jlo>>] \o ColumnCells(g, i, jlo + 1, jhi)

\* the concatenation over i in range(ilo, ihi), j in range(jlo, jhi)
RECURSIVE BlockCells(_, _, _, _, _)
BlockCells(g, ilo, ihi, jlo, jhi) ==
    IF ilo >= ihi THEN <<>>
    ELSE ColumnCells(g, ilo, jlo, jhi) \o BlockCells(g, ilo + 1, ihi, jlo, jhi)

\* get_potential_collisions with ranges ending at col + 1 and row + 1, the
\* last neighbour taken for the exclusive end of range()
get_potential_collisions_shortRange(g, p) ==
    LET col == ClampCell(p.x, g.cols)
        row == ClampCell(p.y, g.rows)
    IN  BlockCells(g, IMax(0, col - 1), IMin(col + 1, g.cols),
                      IMax(0, row - 1), IMin(row + 1, g.rows))

\* get_potential_collisions looking into the particle's own cell only
get_potential_collisions_ownCell(g, p) ==
    LET col == ClampCell(p.x, g.cols)
        row == ClampCell(p.y, g.rows)
    IN  BlockCells(g, col, col + 1, row, row + 1)

\* SpatialGrid.get_potential_collisions for a particle with non-NaN position
get_potential_collisions(g, p) ==
    LET col == ClampCell(p.x, g.cols)
        row == ClampCell(p.y, g.rows)
    IN  BlockCells(g, IMax(0, col - 1), IMin(col + 2, g.cols),
                      IMax(0, row - 1), IMin(row + 2, g.rows))

----------------------------------------------------------------------------
(* class Simulation.  A simulation object is a record of its attributes    *)
(* plus status; the operations map one such record to the next.            *)

\* Simulation.__init__(width, height) for integer width and height, with
\* `drawn` the sequence of <<x, y, vx, vy>> the random source produced.
Simulation_init(w, h, drawn) ==
    [particles |-> [k \in DOMAIN drawn |->
                       Particle(drawn[k][1], drawn[k][2], drawn[k][3], drawn[k][4])],
     width |-> I(w), height |-> I(h),
     spatial_grid |-> SpatialGrid(I(w), I(h)),
     volume |-> I(w * h),
     pressure |-> Zero, temperature |-> Zero,
     collision_count |-> 0, time_elapsed |-> Zero,
     status |-> "running"]

\* lines 261-263: Particle.update on particles i.., counting wall collisions
RECURSIVE UpdateParticles(_, _, _, _, _)
UpdateParticles(ps, w, h, i, wall) ==
    IF i > Len(ps) THEN [particles |-> ps, wall |-> wall, raised |-> FALSE]
    ELSE Eval(LAMBDA r :
                 IF r.raised
                 THEN [particles |-> [ps EXCEPT ![i] = r.p], wall |-> wall,
                       raised |-> TRUE]
                 ELSE UpdateParticles([ps EXCEPT ![i] = r.p], w, h, i + 1,
                                      IF r.collision THEN wall + 1 ELSE wall),
              Particle_update(ps[i], w, h))

\* lines 267-268: insert particles i.. into the grid
RECURSIVE InsertAll(_, _, _)
InsertAll(g, ps, i) ==
    IF i > Len(ps) THEN [g |-> g, raised |-> FALSE]
    ELSE Eval(LAMBDA r : IF r.raised THEN r ELSE InsertAll(r.g, ps, i + 1),
              insert(g, ps[i], i))

\* lines 273-274: particle i against candidates cands[k..]
RECURSIVE ResolveCandidates(_, _, _, _)
ResolveCandidates(ps, i, cands, k) ==
    IF k > Len(cands) THEN ps
    ELSE Eval(LAMBDA r : ResolveCandidates(r.particles, i, cands, k + 1),
              check_particle_collision(ps, i, cands[k]))

\* lines 271-274: the resolution pass over particles i..
RECURSIVE ResolveAll(_, _, _)
ResolveAll(g, ps, i) ==
    IF i > Len(ps) THEN [particles |-> ps, raised |-> FALSE]
    ELSE IF IsNaN(ps[i].x) \/ IsNaN(ps[i].y)
         THEN [particles |-> ps, raised |-> TRUE]
         ELSE Eval(LAMBDA cands :
                      Eval(LAMBDA ps2 : ResolveAll(g, ps2, i + 1),
                           ResolveCandidates(ps, i, cands, 1)),
                   get_potential_collisions(g, ps[i]))

\* WindowCloses with the pressure sampled on every tick
WindowCloses_everyTick(te) == Ge(te, Zero)

\* line 280: the pressure window closes
WindowCloses(te) == Ge(te, One)

\* PressureSample dividing by time_elapsed * width only
PressureSample_noHeight(count, te, w, h) ==
    Mul(Div(I(count), Mul(te, w)), I(1000))

\* line 282
PressureSample(count, te, w, h) ==
    Mul(Div(I(count), Mul(Mul(te, w), h)), I(1000))

\* IdealGasTemperature without the volume factor
IdealGasTemperature_noVolume(p, v) == Div(p, I(PARTICLE_COUNT * GAS_CONSTANT))

\* line 287
IdealGasTemperature(p, v) == Div(Mul(p, v), I(PARTICLE_COUNT * GAS_CONSTANT))

\* Bookkeeping with the temperature derived before the pressure is sampled
Bookkeeping_temperatureFirst(s, te, wall) ==
    LET count == s.collision_count + wall
        temp == IdealGasTemperature(s.pressure, s.volume)
    IN  IF WindowCloses(te)
        THEN IF Mul(Mul(te, s.width), s.height) = Zero
             THEN [s EXCEPT !.time_elapsed = te, !.collision_count = count,
                            !.status = "raised"]
             ELSE [s EXCEPT !.pressure = PressureSample(count, te, s.width, s.height),
                            !.collision_count = 0,
                            !.time_elapsed = Zero,
                            !.temperature = temp]
        ELSE [s EXCEPT !.time_elapsed = te, !.collision_count = count,
                       !.temperature = temp]

\* Bookkeeping with the excess over one second carried into the next window
Bookkeeping_carriesExcess(s, te, wall) ==
    LET count == s.collision_count + wall
    IN  IF WindowCloses(te)
        THEN IF Mul(Mul(te, s.width), s.height) = Zero
             THEN [s EXCEPT !.time_elapsed = te, !.collision_count = count,
                            !.status = "raised"]
             ELSE LET pr == PressureSample(count, te, s.width, s.height)
                  IN  [s EXCEPT !.pressure = pr,
                                !.collision_count = 0,
                                !.time_elapsed = Sub(te, One),
                                !.temperature = IdealGasTemperature(pr, s.volume)]
        ELSE [s EXCEPT !.time_elapsed = te, !.collision_count = count,
                       !.temperature = IdealGasTemperature(s.pressure, s.volume)]

\* lines 276-287, with the particles and the grid of the tick in place
Bookkeeping(s, te, wall) ==
    LET count == s.collision_count + wall
    IN  IF WindowCloses(te)
        THEN IF Mul(Mul(te, s.width), s.height) = Zero
             THEN \* ZeroDivisionError at line 282
                  [s EXCEPT !.time_elapsed = te, !.collision_count = count,
                            !.status = "raised"]
             ELSE LET pr == PressureSample(count, te, s.width, s.height)
                  IN  [s EXCEPT !.pressure = pr,
                                !.collision_count = 0,
                                !.time_elapsed = Zero,
                                !.temperature = IdealGasTemperature(pr, s.volume)]
        ELSE [s EXCEPT !.time_elapsed = te, !.collision_count = count,
                       !.temperature = IdealGasTemperature(s.pressure, s.volume)]

\* Simulation_update with the position step scaled by dt (x += vx * dt)
Simulation_update_dtScaled(s, dt) ==
    LET te == Add(s.time_elapsed, dt)
        lagged == [k \in DOMAIN s.particles |->
                      [s.particles[k] EXCEPT
                          !.x = Sub(Add(@, Mul(s.particles[k].vx, dt)), s.particles[k].vx),
                          !.y = Sub(Add(@, Mul(s.particles[k].vy, dt)), s.particles[k].vy)]]
    IN  Eval(LAMBDA moved :
          LET s1 == [s EXCEPT !.time_elapsed = te, !.particles = moved.particles]
          IN  IF moved.raised THEN [s1 EXCEPT !.status = "raised"]
              ELSE Eval(LAMBDA filled :
                     LET s2 == [s1 EXCEPT !.spatial_grid = filled.g]
                     IN  IF filled.raised THEN [s2 EXCEPT !.status = "raised"]
                         ELSE Eval(LAMBDA resolved :
                                LET s3 == [s2 EXCEPT !.particles = resolved.particles]
                                IN  IF resolved.raised
                                    THEN [s3 EXCEPT !.status = "raised"]
                                    ELSE Bookkeeping(s3, te, moved.wall),
                              ResolveAll(filled.g, moved.particles, 1)),
                   InsertAll(SpatialGrid(s.width, s.height), moved.particles, 1)),
             UpdateParticles(lagged, s.width, s.height, 1, 0))

\* Simulation.update(dt)
Simulation_update(s, dt) ==
    LET te == Add(s.time_elapsed, dt)
    IN  Eval(LAMBDA moved :
          LET s1 == [s EXCEPT !.time_elapsed = te, !.particles = moved.particles]
          IN  IF moved.raised THEN [s1 EXCEPT !.status = "raised"]
              ELSE Eval(LAMBDA filled :
                     LET s2 == [s1 EXCEPT !.spatial_grid = filled.g]
                     IN  IF filled.raised THEN [s2 EXCEPT !.status = "raised"]
                         ELSE Eval(LAMBDA resolved :
                                LET s3 == [s2 EXCEPT !.particles = resolved.particles]
                                IN  IF resolved.raised
                                    THEN [s3 EXCEPT !.status = "raised"]
                                    ELSE Bookkeeping(s3, te, moved.wall),
                              ResolveAll(filled.g, moved.particles, 1)),
                   InsertAll(SpatialGrid(s.width, s.height), moved.particles, 1)),
             UpdateParticles(s.particles, s.width, s.height, 1, 0))

\* ScaleClamp without the clamp into the new bounds
ScaleClamp_unclamped(c, new, old, radius) == Mul(c, Div(new, old))

\* line 308 / 309: one coordinate scaled and clamped into the new bounds
ScaleClamp(c, new, old, radius) ==
    PyMin(PyMax(Mul(c, Div(new, old)), radius), Sub(new, radius))

\* lines 306-313 on particles i..; raised: ZeroDivisionError from width /
\* old_width or height / old_height, or ValueError from int() of a NaN.
RECURSIVE ResizeParticles(_, _, _, _, _, _)
ResizeParticles(ps, i, w, h, ow, oh) ==
    IF i > Len(ps) THEN [particles |-> ps, raised |-> FALSE]
    ELSE IF ow = Zero THEN [particles |-> ps, raised |-> TRUE]
    ELSE Eval(LAMBDA x :
           IF oh = Zero
           THEN [particles |-> [ps EXCEPT ![i].x = x], raised |-> TRUE]
           ELSE Eval(LAMBDA y :
                  IF IsNaN(x)
                  THEN [particles |-> [ps EXCEPT ![i].x = x, ![i].y = y],
                        raised |-> TRUE]
                  ELSE IF IsNaN(y)
                  THEN [particles |-> [ps EXCEPT ![i].x = x, ![i].y = y,
                                                 ![i].cell_x = CellIndex(x)],
                        raised |-> TRUE]
                  ELSE ResizeParticles(
                           [ps EXCEPT ![i].x = x, ![i].y = y,
                                      ![i].cell_x = CellIndex(x),
                                      ![i].cell_y = CellIndex(y)],
                           i + 1, w, h, ow, oh),
                ScaleClamp(ps[i].y, h, oh, ps[i].radius)),
         ScaleClamp(ps[i].x, w, ow, ps[i].radius))

\* Simulation_resize with old_width, old_height read after the assignment
\* of the new dimensions
Simulation_resize_lateOldSize(s, w, h) ==
    LET r == ResizeParticles(s.particles, 1, I(w), I(h), I(w), I(h))
    IN  [s EXCEPT !.width = I(w), !.height = I(h), !.volume = I(w * h),
                  !.particles = r.particles,
                  !.status = IF r.raised THEN "raised" ELSE "running"]

\* Simulation_resize deriving the temperature again from the new volume
Simulation_resize_rederives(s, w, h) ==
    LET r == ResizeParticles(s.particles, 1, I(w), I(h), s.width, s.height)
    IN  [s EXCEPT !.width = I(w), !.height = I(h), !.volume = I(w * h),
                  !.temperature = IdealGasTemperature(s.pressure, I(w * h)),
                  !.particles = r.particles,
                  !.status = IF r.raised THEN "raised" ELSE "running"]

\* Simulation_resize without the assignment of line 303 to self.volume
Simulation_resize_staleVolume(s, w, h) ==
    LET r == ResizeParticles(s.particles, 1, I(w), I(h), s.width, s.height)
    IN  [s EXCEPT !.width = I(w), !.height = I(h),
                  !.particles = r.particles,
                  !.status = IF r.raised THEN "raised" ELSE "running"]

\* Simulation.resize(width, height) for integer width and height
Simulation_resize(s, w, h) ==
    LET r == ResizeParticles(s.particles, 1, I(w), I(h), s.width, s.height)
    IN  [s EXCEPT !.width = I(w), !.height = I(h), !.volume = I(w * h),
                  !.particles = r.particles,
                  !.status = IF r.raised THEN "raised" ELSE "running"]

----------------------------------------------------------------------------
(* The state machine.                                                      *)

\* the simulation object held in the variables
Sim ==
    [particles |-> particles, width |-> width, height |-> height,
     spatial_grid |-> spatial_grid, volume |-> volume,
     pressure |-> pressure, temperature |-> temperature,
     collision_count |-> collision_count, time_elapsed |-> time_elapsed,
     status |-> status]

Install(s) ==
    /\ particles' = s.particles
    /\ width' = s.width
    /\ height' = s.height
    /\ spatial_grid' = s.spatial_grid
    /\ volume' = s.volume
    /\ pressure' = s.pressure
    /\ temperature' = s.temperature
    /\ collision_count' = s.collision_count
    /\ time_elapsed' = s.time_elapsed
    /\ status' = s.status

Constructed(s) ==
    /\ particles = s.particles
    /\ width = s.width
    /\ height = s.height
    /\ spatial_grid = s.spatial_grid
    /\ volume = s.volume
    /\ pressure = s.pressure
    /\ temperature = s.temperature
    /\ collision_count = s.collision_count
    /\ time_elapsed = s.time_elapsed
    /\ status = s.status
    /\ last = [op |-> "init", args |-> <<I(0)>>]
    /\ ret = "None"
    /\ pre = s
    /\ ticks = 0

\* Bounds of the exploration.
MaxTicks == 4

\* dt of a call of Simulation.update, in seconds
DtSet == {Rat(1, 2), Rat(3, 4)}

\* <<width, height>> given to the constructor and to resize (main keeps the
\* box between 100 and 750 pixels; the model uses boxes of a few cells)
Boxes == {<<30, 20>>, <<20, 40>>}

\* values of np.random.uniform(PARTICLE_SIZE, dim - PARTICLE_SIZE) and of
\* np.random.uniform(-5, 5) the model draws; they lie in the range for every
\* box of Boxes
XDraws == {6, 12}
YDraws == {6}
Velocities == {-3, 4}

\* The particles a constructor draws: one or two particles, all with the
\* same y and vy, so that every centre distance stays rational.
Drawn(xs, ys) ==
    UNION { { [k \in 1 .. n |-> <<I(f[k][1]), I(y), I(f[k][2]), I(vy)>>] :
                f \in [1 .. n -> xs \X Velocities], y \in ys, vy \in Velocities }
            : n \in 1 .. 2 }

Init ==
    \E b \in Boxes :
        \E d \in Drawn(XDraws, YDraws) : Constructed(Simulation_init(b[1], b[2], d))

Update(dt) ==
    /\ status = "running"
    /\ ticks < MaxTicks
    /\ \E s \in {Simulation_update(Sim, dt)} : Install(s)
    /\ last' = [op |-> "update", args |-> <<dt>>]
    /\ ret' = "None"
    /\ pre' = Sim
    /\ ticks' = ticks + 1

Resize(w, h) ==
    /\ status = "running"
    /\ ticks < MaxTicks
    /\ \E s \in {Simulation_resize(Sim, w, h)} : Install(s)
    /\ last' = [op |-> "resize", args |-> <<I(w), I(h)>>]
    /\ ret' = "None"
    /\ pre' = Sim
    /\ ticks' = ticks + 1

Tick == \E dt \in DtSet : Update(dt)
ResizeBox == \E b \in Boxes : Resize(b[1], b[2])

Next == Tick \/ ResizeBox

Spec == Init /\ [][Next]_vars

----------------------------------------------------------------------------
(* Simulation with the sizes main never passes but the constructor and     *)
(* resize accept: at or below one particle diameter, zero, negative.       *)

BadBoxes == {<<-10, 20>>, <<0, 20>>, <<20, 4>>}
SmallBoxes == {<<4, 20>>, <<10, 30>>, <<20, 0>>}

\* np.random.uniform(PARTICLE_SIZE, dim - PARTICLE_SIZE) also accepts
\* dim - PARTICLE_SIZE < PARTICLE_SIZE and then draws between the two
DrawsFor(dim) ==
    IF dim >= 2 * PARTICLE_SIZE + 2 THEN {PARTICLE_SIZE + 1, dim - PARTICLE_SIZE - 1}
    ELSE {dim - PARTICLE_SIZE + 1, PARTICLE_SIZE - 1}

DrawnAny(w, h) ==
    UNION { { [k \in 1 .. n |-> <<I(f[k]), I(y), I(-3), I(vy)>>] :
                f \in [1 .. n -> DrawsFor(w)], y \in DrawsFor(h), vy \in {4} }
            : n \in 1 .. 2 }

InitAny ==
    \E b \in {<<30, 20>>} \cup BadBoxes :
        \E d \in DrawnAny(b[1], b[2]) : Constructed(Simulation_init(b[1], b[2], d))

ResizeAny == \E b \in {<<30, 20>>} \cup SmallBoxes : Resize(b[1], b[2])

NextAny == Tick \/ ResizeAny

SpecAny == InitAny /\ [][NextAny]_vars

----------------------------------------------------------------------------
(* Particle.update as a function of the particle and the bounds: one       *)
(* particle, anywhere (also outside the container), and calls of           *)
(* Particle.update(width, height) on it.                                   *)

PyBool(b) == IF b THEN "True" ELSE "False"

Coordinates == {-8, 3, 5, 9, 15, 27}
Speeds == {-4, 0, 4}
Extents == {8, 10, 20}

InitParticle ==
    \E w \in Extents, h \in Extents :
        \E x \in Coordinates, y \in Coordinates, vx \in Speeds, vy \in Speeds :
            Constructed(Simulation_init(w, h, << <<I(x), I(y), I(vx), I(vy)>> >>))

ParticleUpdate(i) ==
    /\ status = "running"
    /\ ticks < MaxTicks
    /\ \E r \in {Particle_update(particles[i], width, height)} :
           /\ particles' = [particles EXCEPT ![i] = r.p]
           /\ ret' = PyBool(r.collision)
           /\ status' = IF r.raised THEN "raised" ELSE "running"
    /\ last' = [op |-> "Particle.update", args |-> <<I(i)>>]
    /\ pre' = Sim
    /\ ticks' = ticks + 1
    /\ UNCHANGED <<width, height, volume, pressure, temperature,
                   collision_count, time_elapsed, spatial_grid>>

NextParticle == \E i \in DOMAIN particles : ParticleUpdate(i)

SpecParticle == InitParticle /\ [][NextParticle]_vars

----------------------------------------------------------------------------
(* check_particle_collision as a function of the two particles: two        *)
(* particles in a 100 x 100 container, the first at (40, 50), the second   *)
(* at an offset whose length is rational, and calls of                     *)
(* check_particle_collision on them in either order and on one alone.      *)

Offsets == {<<0, 0>>, <<10, 0>>, <<9, 0>>, <<-4, 0>>, <<12, 0>>, <<0, 8>>,
            <<0, -10>>, <<3, 4>>, <<-4, 3>>, <<6, 8>>, <<-6, -8>>, <<-3, -4>>}
Components == {-2, 0, 2}

InitCollide ==
    \E o \in Offsets :
        \E v1x \in Components, v1y \in Components,
           v2x \in Components, v2y \in Components :
            Constructed(Simulation_init(100, 100,
                << <<I(40), I(50), I(v1x), I(v1y)>>,
                   <<I(40 + o[1]), I(50 + o[2]), I(v2x), I(v2y)>> >>))

Collide(i, j) ==
    /\ status = "running"
    /\ ticks < MaxTicks
    /\ \E r \in {check_particle_collision(particles, i, j)} :
           /\ particles' = r.particles
           /\ ret' = PyBool(r.ret)
    /\ last' = [op |-> "check_particle_collision", args |-> <<I(i), I(j)>>]
    /\ pre' = Sim
    /\ ticks' = ticks + 1
    /\ UNCHANGED <<width, height, volume, pressure, temperature,
                   collision_count, time_elapsed, spatial_grid, status>>

NextCollide == \E i \in DOMAIN particles, j \in DOMAIN particles : Collide(i, j)

SpecCollide == InitCollide /\ [][NextCollide]_vars

----------------------------------------------------------------------------
(* The resize scenario of main's default window: a 700 x 500 container     *)
(* (box_width, box_height of line 337) resized to 350 x 250 and back, with *)
(* updates in between, on one or two particles.                            *)

ScenarioBoxes == {<<700, 500>>, <<350, 250>>}
ScenarioXs == {6, 10, 350, 694}
ScenarioYs == {10, 495}

InitScenario ==
    \E n \in 1 .. 2 :
        \E f \in [1 .. n -> ScenarioXs], y \in ScenarioYs :
            Constructed(Simulation_init(700, 500,
                [k \in 1 .. n |-> <<I(f[k]), I(y), I(4), I(-3)>>]))

ResizeScenario == \E b \in ScenarioBoxes : Resize(b[1], b[2])

NextScenario == Tick \/ ResizeScenario

SpecScenario == InitScenario /\ [][NextScenario]_vars

----------------------------------------------------------------------------
(* class SpatialGrid on its own: the grid of a 30 x 20 container (4 x 3    *)
(* cells) and two particles at rest, placed anywhere, also outside the     *)
(* container where insert clamps the cell index; calls of clear and of     *)
(* insert on the grid.                                                     *)

GridPoints == {<<8, 8>>, <<12, 8>>, <<19, 11>>, <<21, 9>>, <<25, 5>>,
               <<29, 19>>, <<38, 19>>, <<45, 25>>, <<52, 31>>,
               <<-3, 7>>, <<-11, 3>>, <<30, 20>>}

InitGrid ==
    \E a \in GridPoints, b \in GridPoints :
        Constructed(Simulation_init(30, 20,
            << <<I(a[1]), I(a[2]), Zero, Zero>>,
               <<I(b[1]), I(b[2]), Zero, Zero>> >>))

GridClear ==
    /\ status = "running"
    /\ ticks < MaxTicks
    /\ spatial_grid' = clear(spatial_grid)
    /\ last' = [op |-> "clear", args |-> <<I(0)>>]
    /\ ret' = "None"
    /\ pre' = Sim
    /\ ticks' = ticks + 1
    /\ UNCHANGED <<particles, width, height, volume, pressure, temperature,
                   collision_count, time_elapsed, status>>

GridInsert(i) ==
    /\ status = "running"
    /\ ticks < MaxTicks
    /\ \E r \in {insert(spatial_grid, particles[i], i)} :
           /\ spatial_grid' = r.g
           /\ status' = IF r.raised THEN "raised" ELSE "running"
    /\ last' = [op |-> "insert", args |-> <<I(i)>>]
    /\ ret' = "None"
    /\ pre' = Sim
    /\ ticks' = ticks + 1
    /\ UNCHANGED <<particles, width, height, volume, pressure, temperature,
                   collision_count, time_elapsed>>

NextGrid == GridClear \/ \E i \in DOMAIN particles : GridInsert(i)

SpecGrid == InitGrid /\ [][NextGrid]_vars

----------------------------------------------------------------------------
(* A simulation of three particles on one horizontal line, so that a       *)
(* resolution between two of them can move one towards the third, ticking  *)
(* with no key pressed.                                                    *)

CrowdXs == {8, 22, 26}

InitCrowd ==
    \E f \in [1 .. 3 -> CrowdXs \X Velocities] :
        Constructed(Simulation_init(40, 20,
            [k \in 1 .. 3 |-> <<I(f[k][1]), I(6), I(f[k][2]), I(4)>>]))

NextCrowd == Tick

SpecCrowd == InitCrowd /\ [][NextCrowd]_vars

----------------------------------------------------------------------------
(* Properties.                                                             *)

Diameter == I(2 * PARTICLE_SIZE)

\* radius <= x <= w - radius and radius <= y <= h - radius
InBounds(p, w, h) ==
    /\ Le(p.radius, p.x) /\ Le(p.x, Sub(w, p.radius))
    /\ Le(p.radius, p.y) /\ Le(p.y, Sub(h, p.radius))

Finite(p) == ~IsNaN(p.x) /\ ~IsNaN(p.y) /\ ~IsNaN(p.vx) /\ ~IsNaN(p.vy)

Returned(op) == last.op = op /\ status = "running"

\* the two particles of a check_particle_collision(a, b) call, before it
ArgA == pre.particles[last.args[1][1]]
ArgB == pre.particles[last.args[2][1]]
CollideCalled == last.op = "check_particle_collision"
DistinctArgs == last.args[1] # last.args[2]

At(p, x, y) == p.x = I(x) /\ p.y = I(y)
Moving(p, vx, vy) == p.vx = I(vx) /\ p.vy = I(vy)

\* C1: when Simulation.update returns, every particle lies inside the walls,
\* also a particle moved by the separation of a collision in that tick.
C1_WallContainment ==
    Returned("update") =>
        \A i \in DOMAIN particles : InBounds(particles[i], width, height)

\* C2: after Particle.update(width, height) with width, height >= 2 * radius
\* the particle lies inside the walls, wherever it started.
C2_ParticleUpdateInBounds ==
    (Returned("Particle.update") /\ Ge(width, Diameter) /\ Ge(height, Diameter))
        => InBounds(particles[1], width, height)

C2_Witness ==
    /\ Returned("Particle.update")
    /\ Ge(width, Diameter) /\ Ge(height, Diameter)
    /\ Lt(pre.particles[1].x, Zero)
    /\ Gt(pre.particles[1].y, height)
    /\ InBounds(particles[1], width, height)

HeadOn(xb) ==
    /\ CollideCalled /\ last.args = <<I(1), I(2)>>
    /\ At(ArgA, 40, 50) /\ Moving(ArgA, 2, 0)
    /\ At(ArgB, xb, 50) /\ Moving(ArgB, -2, 0)

\* C3 as claimed: at (40,50) and (50,50) with velocities (2,0) and (-2,0) one
\* call swaps the velocities and returns true.
C3_HeadOnSwap ==
    HeadOn(50) =>
        /\ ret = "True"
        /\ particles[1].vx = I(-2) /\ particles[2].vx = I(2)

\* C3 amended: at (40,50) and (49,50), centres closer than the two radii, one
\* call swaps the velocities and returns true; at (40,50) and (50,50), the
\* particles exactly touching, the call returns false and changes nothing.
C3_HeadOnOverlapSwap ==
    /\ HeadOn(49) =>
          /\ ret = "True"
          /\ Moving(particles[1], -2, 0) /\ Moving(particles[2], 2, 0)
    /\ HeadOn(50) => (ret = "False" /\ particles = pre.particles)

C3_Witness == HeadOn(49) /\ ret = "True" /\ particles[1].vx = I(-2)

Momentum(ps, a, b) ==
    <<Add(Mul(ps[a].mass, ps[a].vx), Mul(ps[b].mass, ps[b].vx)),
      Add(Mul(ps[a].mass, ps[a].vy), Mul(ps[b].mass, ps[b].vy))>>

\* C4: a call of check_particle_collision(a, b) that returns true leaves
\* m_a * v_a + m_b * v_b unchanged in both components.
C4_MomentumConserved ==
    (CollideCalled /\ ret = "True") =>
        Momentum(particles, 1, 2) = Momentum(pre.particles, 1, 2)

\* (v_b - v_a) . (b - a): the sign of the normal relative velocity of a
\* pair whose centres differ
Approach(a, b) ==
    Add(Mul(Sub(b.vx, a.vx), Sub(b.x, a.x)), Mul(Sub(b.vy, a.vy), Sub(b.y, a.y)))

SquaredDistance(a, b) ==
    Add(Mul(Sub(b.x, a.x), Sub(b.x, a.x)), Mul(Sub(b.y, a.y), Sub(b.y, a.y)))

Overlapping(a, b) ==
    Lt(SquaredDistance(a, b), Mul(Add(a.radius, b.radius), Add(a.radius, b.radius)))

Coincident(a, b) == a.x = b.x /\ a.y = b.y

\* Supporting C4: with distinct centres a call that returns true conserves
\* the momentum.
MomentumConservedApart ==
    (CollideCalled /\ ret = "True" /\ ~Coincident(ArgA, ArgB)) =>
        Momentum(particles, 1, 2) = Momentum(pre.particles, 1, 2)

\* Every centre distance of a reachable state has a rational root, so Sqrt
\* is exact wherever check_particle_collision takes it.
ExactDistances ==
    \A i, j \in DOMAIN particles :
        HasExactSqrt(SquaredDistance(particles[i], particles[j]))

\* C5: on two distinct overlapping particles whose normal relative velocity
\* is >= 0 check_particle_collision returns false and changes nothing.
C5_SeparatingUntouched ==
    (/\ CollideCalled /\ DistinctArgs
     /\ Overlapping(ArgA, ArgB) /\ ~Coincident(ArgA, ArgB)
     /\ Ge(Approach(ArgA, ArgB), Zero))
        => (ret = "False" /\ particles = pre.particles)

C5_Witness ==
    /\ CollideCalled /\ DistinctArgs
    /\ Overlapping(ArgA, ArgB) /\ ~Coincident(ArgA, ArgB)
    /\ Approach(ArgA, ArgB) = Zero
    /\ ArgA.vx # Zero
    /\ ret = "False" /\ particles = pre.particles

\* C6: on two distinct particles whose centres coincide the call divides by
\* no zero and leaves both particles with finite positions and velocities.
C6_ZeroSeparationGuard ==
    (CollideCalled /\ DistinctArgs /\ Coincident(ArgA, ArgB))
        => \A i \in DOMAIN particles : Finite(particles[i])

\* C7: after any resize of a sound simulation, also to a width or height of
\* at most 2 * radius, the bounds are satisfiable and hold for every particle.
C7_DegenerateResizeRefused ==
    (/\ last.op = "resize"
     /\ Ge(pre.width, Diameter) /\ Ge(pre.height, Diameter)
     /\ \A i \in DOMAIN pre.particles :
            InBounds(pre.particles[i], pre.width, pre.height))
        => /\ status = "running"
           /\ Ge(width, Diameter) /\ Ge(height, Diameter)
           /\ \A i \in DOMAIN particles : InBounds(particles[i], width, height)

\* C8: constructing a Simulation with a non-positive width or height, or with
\* a dimension below 2 * radius, fails with an error.
C8_ConstructionValidated ==
    (/\ last.op = "init"
     /\ \/ Le(width, Zero) \/ Le(height, Zero)
        \/ Lt(width, Diameter) \/ Lt(height, Diameter))
        => status = "raised"

\* the update that just returned found the window at or past 1.0
ClosedWindow == Ge(Add(pre.time_elapsed, last.args[1]), One)

\* C9 as claimed: an update that does not close the window leaves pressure
\* and temperature as the previous update left them, whatever resize calls
\* came in between.
C9_PiecewiseConstant ==
    (Returned("update") /\ ~ClosedWindow) =>
        (pressure = pre.pressure /\ temperature = pre.temperature)

\* the temperature left by the previous update is pressure * volume for the
\* volume this update starts with: no resize changed the volume in between
VolumeAsObserved ==
    Mul(pre.temperature, I(PARTICLE_COUNT * GAS_CONSTANT))
        = Mul(pre.pressure, pre.volume)

\* C9 amended: an update that does not close the window leaves pressure as
\* it was, whatever resize calls came in between, and leaves temperature as
\* the previous update left it provided no resize changed the volume since.
C9_PiecewiseConstantAtFixedVolume ==
    (Returned("update") /\ ~ClosedWindow) =>
        /\ pressure = pre.pressure
        /\ VolumeAsObserved => temperature = pre.temperature

C9_Witness ==
    /\ Returned("update") /\ ~ClosedWindow
    /\ VolumeAsObserved
    /\ pressure # Zero
    /\ temperature = pre.temperature

\* the number of particles whose Particle.update reported a wall collision in
\* the update that just returned
WallCollisions ==
    Cardinality({i \in DOMAIN pre.particles :
        Particle_update(pre.particles[i], pre.width, pre.height).collision})

\* C10: the update that brings time_elapsed to exactly 1.0 sets pressure to
\* count / (1.0 * width * height) * 1e3 for the count of wall collisions of
\* the window and resets collision_count and time_elapsed to 0; an update
\* that leaves time_elapsed below 1.0 leaves pressure unchanged.
C10_PressureWindow ==
    Returned("update") =>
        /\ Add(pre.time_elapsed, last.args[1]) = One =>
              /\ pressure = Div(I((pre.collision_count + WallCollisions) * 1000),
                                Mul(width, height))
              /\ collision_count = 0
              /\ time_elapsed = Zero
        /\ ~ClosedWindow => pressure = pre.pressure

C10_Witness ==
    /\ Returned("update")
    /\ Add(pre.time_elapsed, last.args[1]) = One
    /\ pre.collision_count > 0 /\ WallCollisions > 0
    /\ pressure # pre.pressure

\* C11: when Simulation.update returns, temperature equals pressure * volume /
\* (PARTICLE_COUNT * GAS_CONSTANT) for the pressure and the volume of that
\* moment, also on the update that samples a new pressure and after a resize.
C11_IdealGasRelation ==
    Returned("update") =>
        Mul(temperature, I(PARTICLE_COUNT * GAS_CONSTANT)) = Mul(pressure, volume)

C11_Witness ==
    /\ Returned("update") /\ ClosedWindow
    /\ pressure # Zero /\ pressure # pre.pressure
    /\ pre.temperature # Zero
    /\ Mul(temperature, I(PARTICLE_COUNT * GAS_CONSTANT)) = Mul(pressure, volume)

\* resize(350, 250) was called on a 700 x 500 container whose particles all
\* lay inside its bounds
HalvingScenario ==
    /\ last.op = "resize" /\ last.args = <<I(350), I(250)>>
    /\ pre.width = I(700) /\ pre.height = I(500)
    /\ \A i \in DOMAIN pre.particles :
           InBounds(pre.particles[i], pre.width, pre.height)

\* C12 as claimed: after resize(350, 250) of a 700 x 500 container every
\* particle sits at exactly 0.5 times its old position on each axis and lies
\* inside the new bounds.
C12_ScenarioHalves ==
    HalvingScenario =>
        \A i \in DOMAIN particles :
            /\ particles[i].x = Mul(Half, pre.particles[i].x)
            /\ particles[i].y = Mul(Half, pre.particles[i].y)
            /\ InBounds(particles[i], width, height)

\* the coordinate after the scenario's resize: half the old one where that
\* lies inside the new bounds (old coordinate between 2 * radius and old
\* extent - 2 * radius), else the nearer new bound
HalvedOrClamped(c, old, radius, extent) ==
    IF Lt(old, Mul(I(2), radius)) THEN c = radius
    ELSE IF Gt(old, Sub(Mul(I(2), extent), Mul(I(2), radius)))
    THEN c = Sub(extent, radius)
    ELSE c = Mul(Half, old)

\* C12 amended: after resize(350, 250) of a 700 x 500 container every
\* particle lies inside the new bounds, at exactly 0.5 times its old
\* coordinate on each axis where the old coordinate was at least 2 * radius
\* from both old walls, and at the new bound (radius or extent - radius) on
\* an axis where it was closer to a wall than that.
C12_ScenarioHalvesOrClamps ==
    HalvingScenario =>
        /\ status = "running"
        /\ \A i \in DOMAIN particles :
               LET p == pre.particles[i]
                   q == particles[i]
               IN  /\ InBounds(q, width, height)
                   /\ HalvedOrClamped(q.x, p.x, p.radius, width)
                   /\ HalvedOrClamped(q.y, p.y, p.radius, height)

C12_Witness ==
    /\ HalvingScenario
    /\ \E i \in DOMAIN particles :
           /\ pre.particles[i].x = I(6) /\ particles[i].x = I(5)
           /\ pre.particles[i].y = I(10) /\ particles[i].y = I(5)
    /\ \E i \in DOMAIN particles :
           /\ pre.particles[i].x = I(350) /\ particles[i].x = I(175)

\* old * new_extent / old_extent, clamped: min(max(., radius), new_extent - radius)
ScaledIntoBounds(old, new_extent, old_extent, radius) ==
    PyMin(PyMax(Div(Mul(old, new_extent), old_extent), radius),
          Sub(new_extent, radius))

\* C13: after Simulation.resize(w, h) the stored width and height are w and h
\* and every particle's x is min(max(old_x * w / old_width, radius), w - radius)
\* and its y is min(max(old_y * h / old_height, radius), h - radius).
C13_ResizePostcondition ==
    Returned("resize") =>
        /\ width = last.args[1] /\ height = last.args[2]
        /\ \A i \in DOMAIN particles :
               LET p == pre.particles[i]
               IN  /\ particles[i].x =
                          ScaledIntoBounds(p.x, last.args[1], pre.width, p.radius)
                   /\ particles[i].y =
                          ScaledIntoBounds(p.y, last.args[2], pre.height, p.radius)

C13_Witness ==
    /\ Returned("resize")
    /\ width # pre.width /\ height # pre.height
    /\ \E i \in DOMAIN particles :
           LET p == pre.particles[i]
           IN  /\ Lt(Div(Mul(p.x, width), pre.width), p.radius)
               /\ particles[i].x = p.radius
               /\ particles[i].y = Div(Mul(p.y, height), pre.height)
               /\ particles[i].y # p.y

\* C14: Simulation.resize leaves every particle's vx, vy, radius and mass and
\* the simulation's pressure, temperature, collision_count, time_elapsed (and
\* grid) as they were; only width, height, volume and the particles'
\* positions and cached cell indices may differ.
C14_ResizeFrame ==
    last.op = "resize" =>
        /\ pressure = pre.pressure
        /\ temperature = pre.temperature
        /\ collision_count = pre.collision_count
        /\ time_elapsed = pre.time_elapsed
        /\ spatial_grid = pre.spatial_grid
        /\ DOMAIN particles = DOMAIN pre.particles
        /\ \A i \in DOMAIN particles :
               particles[i] = [pre.particles[i] EXCEPT
                                  !.x = particles[i].x,
                                  !.y = particles[i].y,
                                  !.cell_x = particles[i].cell_x,
                                  !.cell_y = particles[i].cell_y]

C14_Witness ==
    /\ Returned("resize")
    /\ volume # pre.volume
    /\ pressure # Zero /\ temperature # Zero
    /\ collision_count > 0 /\ time_elapsed # Zero
    /\ temperature = pre.temperature
    /\ \E i \in DOMAIN particles :
           /\ particles[i].x # pre.particles[i].x
           /\ particles[i].vx = pre.particles[i].vx

\* C15: in every state of a Simulation, after construction and after any
\* sequence of update and resize calls, volume = width * height.
C15_VolumeConsistent == volume = Mul(width, height)

C15_Witness ==
    /\ Returned("resize")
    /\ width # pre.width /\ height # pre.height /\ volume # pre.volume
    /\ pre.volume = Mul(pre.width, pre.height)
    /\ volume = Mul(width, height)

\* particle i is in some cell of the current grid
Inserted(i) ==
    \E c \in DOMAIN spatial_grid.grid :
        \E k \in DOMAIN spatial_grid.grid[c] : spatial_grid.grid[c][k] = i

\* get_potential_collisions(particle i) on the current grid contains particle j
Candidate(i, j) ==
    LET found == get_potential_collisions(spatial_grid, particles[i])
    IN  \E k \in DOMAIN found : found[k] = j

\* centre distance at most radius_a + radius_b
Within(a, b) ==
    Le(SquaredDistance(a, b), Mul(Add(a.radius, b.radius), Add(a.radius, b.radius)))

\* C16: once every particle has been inserted into the grid, any two distinct
\* particles whose centre distance is at most the sum of their radii are
\* found from one another: get_potential_collisions of one contains the
\* other, also when a cell index was clamped at the grid's edge.
C16_GridCompleteness ==
    (\A i \in DOMAIN particles : Inserted(i)) =>
        \A i, j \in DOMAIN particles :
            (i # j /\ Within(particles[i], particles[j]))
                => (Candidate(i, j) \/ Candidate(j, i))

C16_Witness ==
    /\ last.op = "insert"
    /\ \A i \in DOMAIN particles : Inserted(i)
    /\ \E i, j \in DOMAIN particles :
           /\ i # j /\ Within(particles[i], particles[j])
           /\ CellIndex(particles[i].x) >= spatial_grid.cols
           /\ CellIndex(particles[j].x) > CellIndex(particles[i].x)
           /\ CellIndex(particles[j].y) >= spatial_grid.rows
           /\ Candidate(i, j) /\ Candidate(j, i)

C16_WitnessNeighbours ==
    /\ last.op = "insert"
    /\ \A i \in DOMAIN particles : Inserted(i)
    /\ \E i, j \in DOMAIN particles :
           /\ i # j /\ Within(particles[i], particles[j])
           /\ CellIndex(particles[j].x) = CellIndex(particles[i].x) + 1
           /\ CellIndex(particles[j].y) = CellIndex(particles[i].y) - 1
           /\ Candidate(i, j) /\ Candidate(j, i)

\* vx^2 + vy^2
SpeedSquared(p) == Add(Mul(p.vx, p.vx), Mul(p.vy, p.vy))

\* C17: in a simulation of a single particle, which no particle-particle
\* collision can touch, vx^2 + vy^2 is the same after every Simulation.update
\* as before it, whichever walls the particle hit in that tick.
C17_WallReflectionEnergy ==
    (Returned("update") /\ Len(pre.particles) = 1) =>
        SpeedSquared(particles[1]) = SpeedSquared(pre.particles[1])

C17_Witness ==
    /\ Returned("update") /\ Len(pre.particles) = 1
    /\ particles[1].vx # pre.particles[1].vx
    /\ particles[1].vy # pre.particles[1].vy
    /\ pre.particles[1].vx # Neg(pre.particles[1].vy)
    /\ pre.particles[1].vx # pre.particles[1].vy
    /\ SpeedSquared(particles[1]) = SpeedSquared(pre.particles[1])

\* 0.5 * m_a * |v_a|^2 + 0.5 * m_b * |v_b|^2
KineticEnergy(ps, a, b) ==
    Add(Mul(Mul(Half, ps[a].mass), SpeedSquared(ps[a])),
        Mul(Mul(Half, ps[b].mass), SpeedSquared(ps[b])))

\* C18: a call of check_particle_collision(a, b) that returns true leaves the
\* total kinetic energy of a and b unchanged.
C18_KineticEnergyConserved ==
    (CollideCalled /\ ret = "True") =>
        KineticEnergy(particles, 1, 2) = KineticEnergy(pre.particles, 1, 2)

\* Supporting C18: with distinct centres a call that returns true conserves
\* the kinetic energy.
KineticEnergyConservedApart ==
    (CollideCalled /\ ret = "True" /\ ~Coincident(ArgA, ArgB)) =>
        KineticEnergy(particles, 1, 2) = KineticEnergy(pre.particles, 1, 2)

\* after the position step c + v the particle is past the low wall / past
\* the high wall of an axis of the given extent
PastLow(c, v, radius) == Lt(Sub(Add(c, v), radius), Zero)
PastHigh(c, v, radius, extent) == Gt(Add(Add(c, v), radius), extent)

\* C19 as claimed: on each axis on which Particle.update finds the particle
\* past a wall after the position step, the velocity component after the
\* call is the negation of its value before, also for a particle that
\* started outside the wall with its velocity pointing back in.
C19_WallNegatesVelocity ==
    Returned("Particle.update") =>
        LET p == pre.particles[1]
            q == particles[1]
        IN  /\ (PastLow(p.x, p.vx, p.radius) \/ PastHigh(p.x, p.vx, p.radius, width))
                   => q.vx = Neg(p.vx)
            /\ (PastLow(p.y, p.vy, p.radius) \/ PastHigh(p.y, p.vy, p.radius, height))
                   => q.vy = Neg(p.vy)

\* one axis of C19 amended: v2 is the velocity component after the call
PointsInward(c, v, v2, radius, extent) ==
    /\ PastLow(c, v, radius) =>
           /\ v2 = FAbs(v)
           /\ Le(v, Zero) => v2 = Neg(v)
           /\ Gt(v, Zero) => v2 = v
    /\ (PastHigh(c, v, radius, extent) /\ ~PastLow(c, v, radius)) =>
           /\ v2 = Neg(FAbs(v))
           /\ Ge(v, Zero) => v2 = Neg(v)
           /\ Lt(v, Zero) => v2 = v

\* C19 amended: on each axis on which Particle.update finds the particle
\* past a wall after the position step, the velocity component after the
\* call has its old magnitude and points into the container (abs(v) at the
\* low wall, -abs(v) at the high wall, the low wall deciding when the
\* particle is past both): the negation of its value before when that
\* pointed out of the container, and its value before, unchanged, when the
\* particle started outside the wall with the velocity already pointing back.
C19_WallPointsVelocityInward ==
    Returned("Particle.update") =>
        LET p == pre.particles[1]
            q == particles[1]
        IN  /\ PointsInward(p.x, p.vx, q.vx, p.radius, width)
            /\ PointsInward(p.y, p.vy, q.vy, p.radius, height)

C19_Witness ==
    /\ Returned("Particle.update") /\ ret = "True"
    /\ Lt(pre.particles[1].x, Zero) /\ Gt(pre.particles[1].vx, Zero)
    /\ PastLow(pre.particles[1].x, pre.particles[1].vx, pre.particles[1].radius)
    /\ particles[1].vx = pre.particles[1].vx
    /\ PastHigh(pre.particles[1].y, pre.particles[1].vy, pre.particles[1].radius, height)
    /\ ~PastLow(pre.particles[1].y, pre.particles[1].vy, pre.particles[1].radius)
    /\ Gt(pre.particles[1].vy, Zero)
    /\ particles[1].vy = Neg(pre.particles[1].vy)

\* centre distance at least radius_a + radius_b
Apart(a, b) ==
    Ge(SquaredDistance(a, b), Mul(Add(a.radius, b.radius), Add(a.radius, b.radius)))

\* C20: check_particle_collision(a, b) returns false and changes no particle
\* when a is b, and when the centre distance is at least the sum of the
\* radii, the exactly touching pair (distance = sum) included.
C20_NonOverlapNoOp ==
    (CollideCalled /\ (~DistinctArgs \/ Apart(ArgA, ArgB)))
        => (ret = "False" /\ particles = pre.particles)

C20_Witness ==
    /\ CollideCalled /\ DistinctArgs
    /\ SquaredDistance(ArgA, ArgB)
           = Mul(Add(ArgA.radius, ArgB.radius), Add(ArgA.radius, ArgB.radius))
    /\ Lt(Approach(ArgA, ArgB), Zero)
    /\ ArgA.y # ArgB.y /\ ArgA.x # ArgB.x
    /\ ret = "False" /\ particles = pre.particles

C20_WitnessSame ==
    /\ CollideCalled /\ ~DistinctArgs
    /\ ArgA.vx # Zero
    /\ ret = "False" /\ particles = pre.particles

\* the two particles of a check_particle_collision(a, b) call, after it
NewA == particles[last.args[1][1]]
NewB == particles[last.args[2][1]]

SumOfRadii(a, b) == Add(a.radius, b.radius)

\* a moved by -overlap/2 and b by +overlap/2 along the unit normal from a to
\* b; the centre distance is then the sum of the radii and the midpoint of
\* the centres is where it was
SeparatedAlongNormal(a, b, a2, b2) ==
    LET d == Distance(a, b)
        half == Mul(Half, Sub(SumOfRadii(a, b), d))
        nx == Div(Sub(b.x, a.x), d)
        ny == Div(Sub(b.y, a.y), d)
    IN  /\ a2.x = Sub(a.x, Mul(half, nx)) /\ a2.y = Sub(a.y, Mul(half, ny))
        /\ b2.x = Add(b.x, Mul(half, nx)) /\ b2.y = Add(b.y, Mul(half, ny))
        /\ SquaredDistance(a2, b2) = Mul(SumOfRadii(a, b), SumOfRadii(a, b))
        /\ Add(a2.x, b2.x) = Add(a.x, b.x)
        /\ Add(a2.y, b2.y) = Add(a.y, b.y)

\* C21: a call of check_particle_collision(a, b) that returns true moves a by
\* -overlap/2 and b by +overlap/2 along the a->b normal, so that the centre
\* distance afterwards is a.radius + b.radius and the midpoint is unchanged.
C21_PositionalSeparation ==
    (CollideCalled /\ ret = "True") => SeparatedAlongNormal(ArgA, ArgB, NewA, NewB)

\* Supporting C21: with distinct centres a call that returns true separates
\* the pair as stated.
PositionalSeparationApart ==
    (CollideCalled /\ ret = "True" /\ ~Coincident(ArgA, ArgB)) =>
        SeparatedAlongNormal(ArgA, ArgB, NewA, NewB)

\* v . (b - a): the velocity of p along the a->b normal, times the centre
\* distance; and v . perp(b - a), the same for the tangent
AlongNormal(p, a, b) == Dot(p.vx, p.vy, Sub(b.x, a.x), Sub(b.y, a.y))
AlongTangent(p, a, b) == Dot(p.vx, p.vy, Neg(Sub(b.y, a.y)), Sub(b.x, a.x))

\* ((m_p - m_q) * v_pn + 2 * m_q * v_qn) / (m_p + m_q)
ElasticNormal(p, q, a, b) ==
    Div(Add(Mul(Sub(p.mass, q.mass), AlongNormal(p, a, b)),
            Mul(Mul(I(2), q.mass), AlongNormal(q, a, b))),
        Add(p.mass, q.mass))

\* the velocities a2, b2 after the call keep the tangential components of a, b
\* and take the 1-D elastic normal components, which for equal masses are
\* those of the other particle
Decomposed(a, b, a2, b2) ==
    /\ AlongTangent(a2, a, b) = AlongTangent(a, a, b)
    /\ AlongTangent(b2, a, b) = AlongTangent(b, a, b)
    /\ AlongNormal(a2, a, b) = ElasticNormal(a, b, a, b)
    /\ AlongNormal(b2, a, b) = ElasticNormal(b, a, a, b)
    /\ a.mass = b.mass =>
           /\ AlongNormal(a2, a, b) = AlongNormal(b, a, b)
           /\ AlongNormal(b2, a, b) = AlongNormal(a, a, b)

\* C22: a call of check_particle_collision(a, b) that returns true leaves
\* each particle's velocity component along the tangent unchanged and sets
\* its component along the a->b normal to ((m1-m2)*v1n + 2*m2*v2n)/(m1+m2)
\* (symmetrically for b); with equal masses the normal components are
\* exchanged.
C22_NormalTangential ==
    (CollideCalled /\ ret = "True") => Decomposed(ArgA, ArgB, NewA, NewB)

\* Supporting C22: with distinct centres a call that returns true changes the
\* velocities as stated.
NormalTangentialApart ==
    (CollideCalled /\ ret = "True" /\ ~Coincident(ArgA, ArgB)) =>
        Decomposed(ArgA, ArgB, NewA, NewB)

\* a resolved call on an oblique pair with non-zero tangential velocities
NormalTangentialCase ==
    /\ CollideCalled /\ ret = "True" /\ ~Coincident(ArgA, ArgB)
    /\ ArgA.x # ArgB.x /\ ArgA.y # ArgB.y
    /\ AlongTangent(ArgA, ArgA, ArgB) # Zero
    /\ AlongTangent(ArgB, ArgA, ArgB) # AlongTangent(ArgA, ArgA, ArgB)
    /\ NewA.vx # ArgA.vx /\ NewA.vx # ArgB.vx

\* the call being made is check_particle_collision on the pair of the call
\* that just returned, in either order
SamePairAgain ==
    /\ last'.op = "check_particle_collision"
    /\ {last'.args[1], last'.args[2]} = {last.args[1], last.args[2]}

\* C23: right after a call of check_particle_collision(a, b) that returned
\* true, a second call on the same pair, as (a, b) or as (b, a), returns false
\* and changes no position or velocity.
C23_ResolutionIdempotent ==
    [][(CollideCalled /\ ret = "True" /\ SamePairAgain)
          => (ret' = "False" /\ particles' = particles)]_vars

\* the second of two calls on a pair, the first of which resolved a collision
\* of particles with distinct centres (it moved the first particle off its
\* initial position) and left them touching
C23_Witness ==
    /\ CollideCalled /\ DistinctArgs /\ ticks = 2
    /\ ~At(pre.particles[1], 40, 50) /\ Finite(pre.particles[1])
    /\ SquaredDistance(ArgA, ArgB) = Mul(SumOfRadii(ArgA, ArgB), SumOfRadii(ArgA, ArgB))
    /\ ret = "False" /\ particles = pre.particles

\* the same after a first call on coincident centres
C23_WitnessCoincident ==
    /\ CollideCalled /\ DistinctArgs /\ ticks = 2
    /\ ~Finite(pre.particles[1])
    /\ ret = "False" /\ particles = pre.particles

\* Supporting C23: a tick of a two-particle simulation visits the pair from
\* both particles and leaves what the first visit alone leaves.
ImpulseOncePerTick ==
    (Returned("update") /\ Len(pre.particles) = 2) =>
        LET moved == UpdateParticles(pre.particles, pre.width, pre.height, 1, 0)
        IN  particles = check_particle_collision(moved.particles, 1, 2).particles

\* how often particle i is listed in the sequence
Count(seq, i) == Cardinality({k \in DOMAIN seq : seq[k] = i})

\* floor(v / cell_size): the k with k * cell_size <= v < (k + 1) * cell_size
Floor(v) ==
    CHOOSE k \in -10 .. 80 :
        Le(I(k * CELL_SIZE), v) /\ Lt(v, I((k + 1) * CELL_SIZE))

\* the nearest valid index to k among 0 .. n - 1
Nearest(k, n) == IF k < 0 THEN 0 ELSE IF k > n - 1 THEN n - 1 ELSE k

\* the cell the claim names for a particle
PlaceOf(p) ==
    <<Nearest(Floor(p.x), spatial_grid.cols), Nearest(Floor(p.y), spatial_grid.rows)>>

\* every particle is listed once in the whole grid: insert was called once
\* for each since the grid was built or cleared
EachInsertedOnce ==
    \A i \in DOMAIN particles :
        \E c \in DOMAIN spatial_grid.grid :
            /\ Count(spatial_grid.grid[c], i) = 1
            /\ \A e \in DOMAIN spatial_grid.grid \ {c} :
                   Count(spatial_grid.grid[e], i) = 0

\* C24: an insert never fails and adds the particle once to the cell
\* (min(max(0, floor(x / cell_size)), cols - 1), min(max(0, floor(y /
\* cell_size)), rows - 1)) and to no other, also for a particle on or past
\* the boundary or at a negative coordinate; so after one insert per
\* particle every particle is held in exactly that one cell.
C24_GridPlacement ==
    /\ \A i \in DOMAIN particles : \A c \in DOMAIN spatial_grid.grid :
           Count(spatial_grid.grid[c], i) > 0 => c = PlaceOf(particles[i])
    /\ last.op = "insert" =>
           /\ status = "running"
           /\ \A i \in DOMAIN particles : \A c \in DOMAIN spatial_grid.grid :
                  Count(spatial_grid.grid[c], i) =
                      Count(pre.spatial_grid.grid[c], i) +
                      (IF I(i) = last.args[1] /\ c = PlaceOf(particles[i])
                       THEN 1 ELSE 0)
    /\ EachInsertedOnce =>
           \A i \in DOMAIN particles :
               Count(spatial_grid.grid[PlaceOf(particles[i])], i) = 1

C24_Witness ==
    /\ last.op = "insert" /\ EachInsertedOnce
    /\ Floor(particles[1].x) < 0
    /\ PlaceOf(particles[1])[1] = 0
    /\ Floor(particles[2].x) > spatial_grid.cols - 1
    /\ Floor(particles[2].y) > spatial_grid.rows - 1
    /\ PlaceOf(particles[2]) = <<spatial_grid.cols - 1, spatial_grid.rows - 1>>
    /\ Count(spatial_grid.grid[PlaceOf(particles[2])], 2) = 1

\* a particle on the container boundary (x = width, y = height) held in the
\* last cell without any clamping
C24_WitnessBoundary ==
    /\ last.op = "insert" /\ EachInsertedOnce
    /\ particles[1].x = width /\ particles[1].y = height
    /\ PlaceOf(particles[1]) = <<Floor(width), Floor(height)>>
    /\ Count(spatial_grid.grid[PlaceOf(particles[1])], 1) = 1

\* the cells (i, j) of the grid with |i - col(p)| <= 1 and |j - row(p)| <= 1
Block(p) ==
    Eval(LAMBDA place :
            {c \in DOMAIN spatial_grid.grid :
                /\ IAbs(c[1] - place[1]) <= 1
                /\ IAbs(c[2] - place[2]) <= 1},
         PlaceOf(p))

\* how often particle j is stored in the given cells together: the number
\* of positions <<cell, k>> that hold j
Listings(cells, j) ==
    Cardinality(UNION {{<<c, k>> : k \in {k \in DOMAIN spatial_grid.grid[c] :
                                             spatial_grid.grid[c][k] = j}}
                       : c \in cells})

\* C25: get_potential_collisions(p) returns exactly what is stored in the
\* cells of the grid within one column and one row of p's cell, each
\* stored particle as often as it is stored (once, after one insert per
\* particle), and nothing else; with p inserted the result contains p.
C25_CandidateSet ==
    \A i \in DOMAIN particles :
        \E found \in {get_potential_collisions(spatial_grid, particles[i])} :
        \E block \in {Block(particles[i])} :
            /\ \A j \in DOMAIN particles :
                   Count(found, j) = Listings(block, j)
            /\ Len(found) = Listings(block, 1) + Listings(block, 2)
            /\ Inserted(i) => Count(found, i) > 0
            /\ EachInsertedOnce =>
                   \A j \in DOMAIN particles :
                       Count(found, j) =
                           IF PlaceOf(particles[j]) \in block THEN 1 ELSE 0

C25_Witness ==
    /\ last.op = "insert" /\ EachInsertedOnce
    /\ PlaceOf(particles[2])[1] = PlaceOf(particles[1])[1] + 1
    /\ PlaceOf(particles[2])[2] = PlaceOf(particles[1])[2] + 1
    /\ get_potential_collisions(spatial_grid, particles[1]) = <<1, 2>>
    /\ Cardinality(Block(particles[2])) < 9

C25_WitnessFar ==
    /\ last.op = "insert" /\ EachInsertedOnce
    /\ PlaceOf(particles[2])[1] > PlaceOf(particles[1])[1] + 1
    /\ get_potential_collisions(spatial_grid, particles[1]) = <<1>>
    /\ get_potential_collisions(spatial_grid, particles[2]) = <<2>>

\* after its position step the particle is past a wall on some axis: one of
\* the four wall branches of Particle.update fires
PastAnyWall(p, w, h) ==
    \/ PastLow(p.x, p.vx, p.radius) \/ PastHigh(p.x, p.vx, p.radius, w)
    \/ PastLow(p.y, p.vy, p.radius) \/ PastHigh(p.y, p.vy, p.radius, h)

\* the particles that meet a wall in the update that just returned
WallHitters ==
    {i \in DOMAIN pre.particles :
        PastAnyWall(pre.particles[i], pre.width, pre.height)}

\* C26: one Simulation.update adds to collision_count the number of particles
\* for which a wall branch fired, a particle in a corner counting once, so at
\* most the particle count (seen in collision_count when the window stays
\* open and in the pressure sample when it closes); and Particle.update
\* returns true exactly when a wall branch fired.
C26_WallCollisionCounting ==
    /\ Returned("update") =>
           LET added == Cardinality(WallHitters)
               te == Add(pre.time_elapsed, last.args[1])
           IN  /\ ~ClosedWindow =>
                      /\ collision_count = pre.collision_count + added
                      /\ collision_count - pre.collision_count <= Len(particles)
               /\ ClosedWindow =>
                      /\ collision_count = 0
                      /\ Mul(pressure, Mul(Mul(te, width), height))
                             = I((pre.collision_count + added) * 1000)
    /\ Returned("Particle.update") =>
           (ret = "True" <=> PastAnyWall(pre.particles[1], width, height))

C26_Witness ==
    /\ Returned("update") /\ ~ClosedWindow /\ Len(particles) = 2
    /\ \E i \in DOMAIN particles :
           /\ PastLow(pre.particles[i].x, pre.particles[i].vx, pre.particles[i].radius)
           /\ PastLow(pre.particles[i].y, pre.particles[i].vy, pre.particles[i].radius)
    /\ WallHitters = {1, 2}
    /\ collision_count = pre.collision_count + 2

C26_WitnessReturn ==
    /\ Returned("Particle.update") /\ ret = "True"
    /\ PastLow(pre.particles[1].x, pre.particles[1].vx, pre.particles[1].radius)
    /\ ~PastLow(pre.particles[1].y, pre.particles[1].vy, pre.particles[1].radius)
    /\ ~PastHigh(pre.particles[1].y, pre.particles[1].vy, pre.particles[1].radius, height)

\* a particle after the position step of lines 63-64
Stepped(p) == [p EXCEPT !.x = Add(p.x, p.vx), !.y = Add(p.y, p.vy)]

\* no wall branch and no collision resolution applies to the stepped particles
FreeFlight(ps, w, h) ==
    /\ \A i \in DOMAIN ps : ~PastAnyWall(ps[i], w, h)
    /\ \A i \in DOMAIN ps : \A j \in DOMAIN ps :
           i # j => Apart(Stepped(ps[i]), Stepped(ps[j]))

\* time steps other than those the exploration passes to update
OtherDts == {Zero, Rat(1, 4), One, I(3)}

\* C27: Simulation.update(dt) steps every particle by exactly (vx, vy),
\* whatever dt is: a particle that meets no wall and no other particle ends
\* at position + velocity with its velocity unchanged, and an update from the
\* same state with any other dt yields the same particles.
C27_FullStepPerTick ==
    (last.op = "update") =>
        /\ \A dt2 \in DtSet \cup OtherDts :
               Simulation_update(pre, dt2).particles = particles
        /\ (status = "running" /\ FreeFlight(pre.particles, pre.width, pre.height)) =>
               \A i \in DOMAIN particles :
                   /\ particles[i].x = Add(pre.particles[i].x, pre.particles[i].vx)
                   /\ particles[i].y = Add(pre.particles[i].y, pre.particles[i].vy)
                   /\ particles[i].vx = pre.particles[i].vx
                   /\ particles[i].vy = pre.particles[i].vy

C27_Witness ==
    /\ Returned("update") /\ last.args[1] = Rat(1, 2)
    /\ Len(particles) = 2
    /\ FreeFlight(pre.particles, pre.width, pre.height)
    /\ particles[1].x # pre.particles[1].x
    /\ particles[1].x # Add(pre.particles[1].x, Mul(pre.particles[1].vx, last.args[1]))
    /\ Simulation_update(pre, I(3)).time_elapsed # time_elapsed

\* C28: on return from every update, resize calls in between or not,
\* 0 <= time_elapsed < 1.0 and collision_count >= 0; a call that brings
\* time_elapsed to 1.0 or more leaves time_elapsed and collision_count at
\* exactly 0, the excess over 1.0 dropped; a resize touches neither.
C28_WindowBookkeeping ==
    /\ Returned("update") =>
           /\ Ge(time_elapsed, Zero) /\ Lt(time_elapsed, One)
           /\ collision_count >= 0
           /\ ClosedWindow => (time_elapsed = Zero /\ collision_count = 0)
           /\ ~ClosedWindow =>
                  time_elapsed = Add(pre.time_elapsed, last.args[1])
    /\ Returned("resize") =>
           /\ time_elapsed = pre.time_elapsed
           /\ collision_count = pre.collision_count

\* a window closed with an excess (1/2 + 3/4 = 5/4) and wall collisions counted
C28_Witness ==
    /\ Returned("update")
    /\ Gt(Add(pre.time_elapsed, last.args[1]), One)
    /\ pre.collision_count > 0
    /\ time_elapsed = Zero /\ collision_count = 0

\* a resize between two updates of one window
C28_WitnessResize ==
    /\ Returned("resize")
    /\ Gt(time_elapsed, Zero) /\ collision_count > 0

\* the resolution pass of lines 271-274 over particles i.., replayed: at each
\* query the list holds the particle itself and every particle that overlaps
\* it at that moment (a query that raises returns no list)
RECURSIVE PassComplete(_, _, _)
PassComplete(g, ps, i) ==
    IF i > Len(ps) \/ IsNaN(ps[i].x) \/ IsNaN(ps[i].y) THEN TRUE
    ELSE Eval(LAMBDA cands :
                 /\ \A j \in DOMAIN ps :
                        (j = i \/ Overlapping(ps[i], ps[j])) =>
                            \E k \in DOMAIN cands : cands[k] = j
                 /\ PassComplete(g, ResolveCandidates(ps, i, cands, 1), i + 1),
              get_potential_collisions(g, ps[i]))

\* the particles and the grid at the start of the resolution pass of the
\* update that was called last
PassStart ==
    LET moved == UpdateParticles(pre.particles, pre.width, pre.height, 1, 0)
        filled == InsertAll(SpatialGrid(pre.width, pre.height), moved.particles, 1)
    IN  [particles |-> moved.particles, g |-> filled.g,
         raised |-> moved.raised \/ filled.raised]

\* C29: in the resolution pass of Simulation.update, the list
\* get_potential_collisions returns for a particle P when P is processed holds
\* P and every particle whose centre is then closer to P's than the sum of
\* the radii.
C29_NoMissedPair ==
    (last.op = "update" /\ ~PassStart.raised) =>
        PassComplete(PassStart.g, PassStart.particles, 1)

\* temperature, pressure and volume of a simulation s satisfy the ideal-gas
\* relation
Consistent(s) ==
    Mul(s.temperature, I(PARTICLE_COUNT * GAS_CONSTANT)) = Mul(s.pressure, s.volume)

\* C30 as claimed: in every state of a running simulation, the state right
\* after a resize included, temperature equals pressure * volume /
\* (PARTICLE_COUNT * GAS_CONSTANT).
C30_ConsistentEveryState == (status = "running") => Consistent(Sim)

\* C30, amended: the relation holds after construction and on return from
\* every update; a resize leaves pressure and temperature as they were and
\* sets the new volume, so from a consistent state it keeps the relation
\* exactly when the pressure is 0 or the volume does not change.
C30_ConsistentUntilResize ==
    /\ (last.op = "init" \/ Returned("update")) => Consistent(Sim)
    /\ Returned("resize") =>
           /\ pressure = pre.pressure
           /\ temperature = pre.temperature
           /\ volume = Mul(width, height)
           /\ Consistent(pre) =>
                  (Consistent(Sim) <=> (pressure = Zero \/ volume = pre.volume))

\* a resize with a sampled pressure changed the volume: the temperature is
\* that of the old volume
C30_Witness ==
    /\ Returned("resize")
    /\ Consistent(pre)
    /\ pressure # Zero /\ volume # pre.volume
    /\ ~Consistent(Sim)

\* the update after such a resize restores the relation
C30_WitnessRestored ==
    /\ Returned("update")
    /\ ~Consistent(pre)
    /\ Consistent(Sim)

====
